---------------------------- MODULE Spec2Model ----------------------------
(***************************************************************************)
(* Model of python/v1/generate_campaign_report.py: a batch job that        *)
(* fetches an AdMob campaign report, writes it to a CSV file and uploads   *)
(* that file to Google Drive as a spreadsheet.                             *)
(*                                                                         *)
(* Text is modelled as a sequence of symbols.  A symbol is either one of   *)
(* the four characters csv treats specially (comma, double quote, CR, LF), *)
(* a decimal digit, or a run of ordinary characters ("Fall Promo").        *)
(* The file is opened with open(path, 'w') on a POSIX system (the default  *)
(* path is /tmp/...), where text mode writes "\n" unchanged.               *)
(***************************************************************************)
EXTENDS Integers, Sequences, FiniteSets, TLC

(***************************************************************************)
(* Bounds of the model.                                                    *)
(***************************************************************************)
MaxRows == 2
MaxRuns == 3

(***************************************************************************)
(* Characters and Python values.                                           *)
(***************************************************************************)
COMMA == ","
DQUOTE == "\""
CR == "\r"
LF == "\n"

Digits == <<"0", "1", "2", "3", "4", "5", "6", "7", "8", "9">>

\* A Python str value.
S(text) == [kind |-> "str", text |-> text, num |-> 0]

\* A Python int value.
N(num) == [kind |-> "int", text |-> <<>>, num |-> num]

RECURSIVE Decimal(_)
\* str(n) of a non-negative int: its decimal digits.
Decimal(n) ==
  IF n < 10 THEN <<Digits[n + 1]>>
  ELSE Decimal(n \div 10) \o <<Digits[(n % 10) + 1]>>

\* The text csv.writer writes for a value: a str as it is, a number by str().
Str(v) == IF v.kind = "str" THEN v.text ELSE Decimal(v.num)

(***************************************************************************)
(* Python dicts keep insertion order: a dict is a sequence of entries      *)
(* [k |-> key, v |-> value].                                               *)
(***************************************************************************)
E(k, v) == [k |-> k, v |-> v]

\* list(d.keys())
Keys(d) == [i \in 1..Len(d) |-> d[i].k]

\* list(d.values())
Values(d) == [i \in 1..Len(d) |-> d[i].v]

(***************************************************************************)
(* csv.writer with the default dialect: delimiter ',', quotechar '"',      *)
(* doublequote, QUOTE_MINIMAL, lineterminator '\r\n'.                      *)
(***************************************************************************)
Special == {COMMA, DQUOTE, CR, LF}

NeedsQuote(t) == \E i \in 1..Len(t) : t[i] \in Special

\* A writer that does not double the quotes inside a quoted field.
DoubleQuotes_None(t) == t

RECURSIVE DoubleQuotes(_)
\* doublequote: every quote inside a quoted field is written twice.
DoubleQuotes(t) ==
  IF t = <<>> THEN <<>>
  ELSE (IF Head(t) = DQUOTE THEN <<DQUOTE, DQUOTE>> ELSE <<Head(t)>>)
       \o DoubleQuotes(Tail(t))

QuoteField(t) ==
  IF NeedsQuote(t) THEN <<DQUOTE>> \o DoubleQuotes(t) \o <<DQUOTE>> ELSE t

RECURSIVE JoinFields(_)
JoinFields(cells) ==
  IF cells = <<>> THEN <<>>
  ELSE IF Len(cells) = 1 THEN QuoteField(Str(cells[1]))
  ELSE QuoteField(Str(Head(cells))) \o <<COMMA>> \o JoinFields(Tail(cells))

RECURSIVE JoinPlain(_)
JoinPlain(cells) ==
  IF cells = <<>> THEN <<>>
  ELSE IF Len(cells) = 1 THEN Str(cells[1])
  ELSE Str(Head(cells)) \o <<COMMA>> \o JoinPlain(Tail(cells))

\* A writer that joins the fields with commas and quotes nothing.
writerow_PlainJoin(cells) == JoinPlain(cells) \o <<CR, LF>>

\* csv_writer.writerow(cells): the characters appended to the file.  A row
\* of one empty field is written as "" so that it is not an empty line.
writerow(cells) ==
  IF Len(cells) = 1 /\ Str(cells[1]) = <<>> THEN <<DQUOTE, DQUOTE, CR, LF>>
  ELSE JoinFields(cells) \o <<CR, LF>>


(***************************************************************************)
(* save_to_csv: the content written for a non-empty report.                *)
(***************************************************************************)
\* A header with the metric keys before the dimension keys.
header_MetricsFirst(report) ==
  Keys(report[1].metricValues) \o Keys(report[1].dimensionValues)

\* list(report[0]['dimensionValues'].keys()) + list(report[0]['metricValues'].keys())
header(report) ==
  Keys(report[1].dimensionValues) \o Keys(report[1].metricValues)

\* list(elem.values())[0]: the first value of a value wrapper.
FirstValue(elem) == Values(elem)[1]

\* The list comprehension of lines 82-83: one cell per dimension entry, then
\* one per metric entry, in the row's own order.
RowCells(row) ==
  LET elems == Values(row.dimensionValues) \o Values(row.metricValues)
  IN  [i \in 1..Len(elems) |-> FirstValue(elems[i])]

RECURSIVE WriteRows(_)
\* The for loop of lines 80-83.
WriteRows(rows) ==
  IF rows = <<>> THEN <<>>
  ELSE writerow(RowCells(Head(rows))) \o WriteRows(Tail(rows))

\* The header as cells: every key is a str.
HeaderCells(report) == [i \in 1..Len(header(report)) |-> S(<<header(report)[i]>>)]

\* What the with block of lines 74-83 leaves in the file.
CsvContent(report) == writerow(HeaderCells(report)) \o WriteRows(report)

(***************************************************************************)
(* The file system entry at csv_output_path.                               *)
(***************************************************************************)
NoFile == [exists |-> FALSE, content |-> <<>>]

File(content) == [exists |-> TRUE, content |-> content]

\* A file left at the path by something earlier than the first run.
OldFile == File(<<"stale", CR, LF>>)

(***************************************************************************)
(* Report rows the reporting API may answer with.  A dimension value is    *)
(* wrapped as {'value': v} (optionally with a 'displayLabel'), a metric    *)
(* value as {'integerValue': v}.                                           *)
(***************************************************************************)
Dim(v) == <<E("value", v)>>

Met(v) == <<E("integerValue", v)>>

\* Row 1 of the example: Fall Promo, US, Ad1, 100, 5, 20.
Row1 ==
  [dimensionValues |-> <<E("CAMPAIGN_NAME", Dim(S(<<"Fall Promo">>))),
                         E("COUNTRY", Dim(S(<<"US">>))),
                         E("AD_NAME", Dim(S(<<"Ad1">>)))>>,
   metricValues |-> <<E("IMPRESSIONS", Met(N(100))),
                      E("INSTALLS", Met(N(5))),
                      E("CLICKS", Met(N(20)))>>]

\* Row 2 of the example: Fall Promo, CA, Ad1, 50, 2, 9.
Row2 ==
  [dimensionValues |-> <<E("CAMPAIGN_NAME", Dim(S(<<"Fall Promo">>))),
                         E("COUNTRY", Dim(S(<<"CA">>))),
                         E("AD_NAME", Dim(S(<<"Ad1">>)))>>,
   metricValues |-> <<E("IMPRESSIONS", Met(N(50))),
                      E("INSTALLS", Met(N(2))),
                      E("CLICKS", Met(N(9)))>>]

\* The same keys; values with a comma, with quotes, empty, and an int64
\* metric sent as a JSON string.
RowQuoting ==
  [dimensionValues |-> <<E("CAMPAIGN_NAME", Dim(S(<<"Sale", COMMA, " 50%">>))),
                         E("COUNTRY", Dim(S(<<>>))),
                         E("AD_NAME", Dim(S(<<DQUOTE, "Ad", DQUOTE, " B">>)))>>,
   metricValues |-> <<E("IMPRESSIONS", Met(S(<<"7">>))),
                      E("INSTALLS", Met(N(0))),
                      E("CLICKS", Met(N(13)))>>]

\* The same keys; a campaign name holding a line break.
RowLineBreak ==
  [dimensionValues |-> <<E("CAMPAIGN_NAME", Dim(S(<<"Fall", LF, "Promo">>))),
                         E("COUNTRY", Dim(S(<<"US">>))),
                         E("AD_NAME", Dim(S(<<"Ad1">>)))>>,
   metricValues |-> <<E("IMPRESSIONS", Met(N(1))),
                      E("INSTALLS", Met(N(0))),
                      E("CLICKS", Met(N(0)))>>]

\* The same key sets as Row1 with two dimension keys in another order.
RowReordered ==
  [dimensionValues |-> <<E("COUNTRY", Dim(S(<<"CA">>))),
                         E("CAMPAIGN_NAME", Dim(S(<<"Fall Promo">>))),
                         E("AD_NAME", Dim(S(<<"Ad1">>)))>>,
   metricValues |-> <<E("IMPRESSIONS", Met(N(50))),
                      E("INSTALLS", Met(N(2))),
                      E("CLICKS", Met(N(9)))>>]

\* Other keys: one dimension whose wrapper holds two names and whose first
\* value is empty, and no metric.
RowOneColumn ==
  [dimensionValues |-> <<E("COUNTRY", <<E("value", S(<<>>)),
                                        E("displayLabel", S(<<"Unknown">>))>>)>>,
   metricValues |-> <<>>]

Rows == {Row1, Row2, RowQuoting, RowLineBreak, RowReordered, RowOneColumn}

RECURSIVE SeqsUpTo(_, _)
\* The sequences over set of length at most n.
SeqsUpTo(set, n) ==
  IF n = 0 THEN {<<>>}
  ELSE LET shorter == SeqsUpTo(set, n - 1)
       IN  shorter \cup {Append(q, x) : q \in shorter, x \in set}

\* Every report of at most MaxRows rows: the inputs of save_to_csv.
AllReports == SeqsUpTo(Rows, MaxRows)

\* Two result tables of the reporting API, one with uniform rows and one
\* without.
Tables ==
  { <<Row1, Row2, RowQuoting, RowLineBreak>>,
    <<RowLineBreak, RowOneColumn, RowReordered, Row1>> }

\* The reports a response carries across the runs: the first rows, at most
\* MaxRows, of a result table.
Reports ==
  UNION { {SubSeq(t, 1, n) :
             n \in 0..(IF MaxRows < Len(t) THEN MaxRows ELSE Len(t))} :
          t \in Tables }

(***************************************************************************)
(* The responses of the reporting API to one generate request: a failure   *)
(* (authentication, authorization, transport), a response with a 'rows'    *)
(* entry, or a response without one (an empty repeated field is left out   *)
(* of the JSON).                                                           *)
(***************************************************************************)
Failure == [kind |-> "error", hasRows |-> FALSE, rows |-> <<>>]

WithRows(rows) == [kind |-> "ok", hasRows |-> TRUE, rows |-> rows]

WithoutRows == [kind |-> "ok", hasRows |-> FALSE, rows |-> <<>>]

\* No request has been answered.
NoResponse == [kind |-> "none", hasRows |-> FALSE, rows |-> <<>>]

Responses == {Failure, WithoutRows} \cup {WithRows(r) : r \in Reports}

\* The rows a response holds, whether or not it has a 'rows' entry.
RowsOf(response) == IF response.hasRows THEN response.rows ELSE <<>>

(***************************************************************************)
(* Requests.                                                               *)
(***************************************************************************)
PUBLISHER_ID == "pub-XXXXXXXXXXXXXXXX"

\* Lines 35-54: the report request body.
ReportRequest ==
  [report_spec |->
    [date_range |-> [start_date |-> [year |-> 2023, month |-> 12, day |-> 1],
                     end_date |-> [year |-> 2023, month |-> 12, day |-> 31]],
     dimensions |-> <<"CAMPAIGN_NAME", "COUNTRY", "AD_NAME">>,
     metrics |-> <<"IMPRESSIONS", "INSTALLS", "CLICKS">>]]

\* A request whose parent is the bare publisher id.
GenerateCall_BarePublisher(publisher_id) ==
  [parent |-> <<publisher_id>>, body |-> ReportRequest]

\* Lines 57-58: generate(parent='accounts/{}'.format(publisher_id), body=request).
GenerateCall(publisher_id) ==
  [parent |-> <<"accounts/", publisher_id>>, body |-> ReportRequest]

\* An upload that asks for the file to be stored as text/csv.
CreateCall_CsvMime(content) ==
  [name |-> "campaign report csv upload ",
   mimeType |-> "text/csv",
   mediaMimeType |-> "text/csv",
   resumable |-> TRUE,
   fields |-> "id",
   media |-> content]

\* Lines 100-108: files().create(body=file_metadata, media_body=media,
\* fields="id").  The name ends in str(time.time()), which the model leaves
\* out of the record.
CreateCall(content) ==
  [name |-> "campaign report csv upload ",
   mimeType |-> "application/vnd.google-apps.spreadsheet",
   mediaMimeType |-> "text/csv",
   resumable |-> TRUE,
   fields |-> "id",
   media |-> content]

\* The document the storage service creates for a create request, and the
\* 'id' of its response: every request makes a new document.
NewDocument(files, call) ==
  [id |-> Len(files) + 1, mimeType |-> call.mimeType, content |-> call.media]

(***************************************************************************)
(* State.                                                                  *)
(***************************************************************************)
VARIABLES
  pc,             \* where main is: idle, authenticated, fetched, saved, done, failed
  run,            \* how many runs of main have started
  response,       \* what the reporting API answered in this run, NoResponse if nothing
  report,         \* main's local variable report
  fs,             \* the file at /tmp/campaign_report.csv
  adRequests,     \* generate requests the reporting API has received
  driveRequests,  \* create requests the storage service has received
  driveFiles,     \* documents the storage service holds
  returned,       \* the id upload_csv_to_google_sheets returned in this run, 0 if none
  trace,          \* the steps this run has executed, in order
  written         \* the file this run's save_to_csv wrote, NoFile if none

vars ==
  <<pc, run, response, report, fs, adRequests, driveRequests, driveFiles, returned,
    trace, written>>

Init ==
  /\ pc = "idle"
  /\ run = 0
  /\ response = NoResponse
  /\ report = <<>>
  /\ fs \in {NoFile, OldFile}
  /\ adRequests = <<>>
  /\ driveRequests = <<>>
  /\ driveFiles = <<>>
  /\ returned = 0
  /\ trace = <<>>
  /\ written = NoFile

(***************************************************************************)
(* main, lines 115-117: a run starts by authenticating against AdMob.      *)
(***************************************************************************)
authenticate(ok) ==
  /\ pc \in {"idle", "done", "failed"}
  /\ run < MaxRuns
  /\ run' = run + 1
  /\ response' = NoResponse
  /\ report' = <<>>
  /\ returned' = 0
  /\ trace' = <<>>
  /\ written' = NoFile
  /\ pc' = IF ok THEN "authenticated" ELSE "failed"
  /\ UNCHANGED <<fs, adRequests, driveRequests, driveFiles>>

(***************************************************************************)
(* generate_campaign_report, line 118 calling lines 27-60.                 *)
(***************************************************************************)
\* Line 60, response['rows']: raises KeyError when the entry is missing.
RowsRaises(answer) == ~answer.hasRows

\* A fetch that swallows the service's failure and goes on with no rows.
FetchRaises_ErrorSwallowed(answer) == answer.kind # "error" /\ RowsRaises(answer)

\* The call raises: execute() propagates the service's failure (line 58), or
\* line 60 raises.
FetchRaises(answer) == answer.kind = "error" \/ RowsRaises(answer)

generate_campaign_report(answer) ==
  /\ pc = "authenticated"
  /\ trace' = Append(trace, "fetch")
  /\ adRequests' = Append(adRequests, GenerateCall(PUBLISHER_ID))
  /\ response' = answer
  /\ IF FetchRaises(answer)
     THEN /\ pc' = "failed"
          /\ UNCHANGED report
     ELSE /\ pc' = "fetched"
          /\ report' = answer.rows
  /\ UNCHANGED <<run, fs, driveRequests, driveFiles, returned, written>>

(***************************************************************************)
(* save_to_csv, line 119 calling lines 63-83.                              *)
(***************************************************************************)
\* Line 70, "if not report".
IsEmpty(rep) == rep = <<>>

\* A save_to_csv that opens the file before it looks at the report.
SavedFile_OpensFirst(rep, file) ==
  IF IsEmpty(rep) THEN File(<<>>) ELSE File(CsvContent(rep))

\* The file after save_to_csv(rep) when open() succeeds.
SavedFile(rep, file) ==
  IF IsEmpty(rep) THEN file ELSE File(CsvContent(rep))

\* save_to_csv raises only from open(), which an empty report never reaches.
SaveRaises(rep, canOpen) == ~IsEmpty(rep) /\ ~canOpen

\* A main that ends the run after an empty report.
AfterSave_ShortCircuit(rep) == IF IsEmpty(rep) THEN "done" ELSE "saved"

\* main, lines 119-120: whatever the report, upload_csv_to_google_sheets is
\* called when save_to_csv returns.
AfterSave(rep) == "saved"

save_to_csv(canOpen) ==
  /\ pc = "fetched"
  /\ trace' = Append(trace, "export")
  /\ IF SaveRaises(report, canOpen)
     THEN /\ pc' = "failed"
          /\ UNCHANGED <<fs, written>>
     ELSE /\ pc' = AfterSave(report)
          /\ fs' = SavedFile(report, fs)
          /\ written' = IF IsEmpty(report) THEN NoFile ELSE SavedFile(report, fs)
  /\ UNCHANGED <<run, response, report, adRequests, driveRequests, driveFiles,
                 returned>>

(***************************************************************************)
(* upload_csv_to_google_sheets, line 120 calling lines 86-111.             *)
(* outcome: "auth_error" (line 99 raises), "remote_error" (the create      *)
(* request of lines 105-109 fails) or "ok".  MediaFileUpload (line 104)    *)
(* opens the file and raises when there is none.                           *)
(***************************************************************************)
UploadOutcomes == {"auth_error", "remote_error", "ok"}

\* The upload gets as far as sending its create request.
SendsCreate(outcome, file) == outcome # "auth_error" /\ file.exists

\* Line 111: return file.get("id").
ReturnedId(file) == file.id

upload_csv_to_google_sheets(outcome) ==
  /\ pc = "saved"
  /\ trace' = Append(trace, "upload")
  /\ IF ~SendsCreate(outcome, fs)
     THEN /\ pc' = "failed"
          /\ UNCHANGED <<driveRequests, driveFiles, returned>>
     ELSE /\ driveRequests' = Append(driveRequests, CreateCall(fs.content))
          /\ IF outcome = "remote_error"
             THEN /\ pc' = "failed"
                  /\ UNCHANGED <<driveFiles, returned>>
             ELSE /\ pc' = "done"
                  /\ driveFiles' =
                       Append(driveFiles,
                              NewDocument(driveFiles, CreateCall(fs.content)))
                  /\ returned' =
                       ReturnedId(NewDocument(driveFiles, CreateCall(fs.content)))
  /\ UNCHANGED <<run, response, report, fs, adRequests, written>>

Next ==
  \/ \E ok \in BOOLEAN : authenticate(ok)
  \/ \E answer \in Responses : generate_campaign_report(answer)
  \/ \E canOpen \in BOOLEAN : save_to_csv(canOpen)
  \/ \E outcome \in UploadOutcomes : upload_csv_to_google_sheets(outcome)

Spec == Init /\ [][Next]_vars

(***************************************************************************)
(* save_to_csv on its own: the first run has fetched any report of         *)
(* AllReports, and save_to_csv is applied to it.                           *)
(***************************************************************************)
InitCsv ==
  /\ pc = "fetched"
  /\ run = 1
  /\ report \in AllReports
  /\ response = WithRows(report)
  /\ fs \in {NoFile, OldFile}
  /\ adRequests = <<GenerateCall(PUBLISHER_ID)>>
  /\ driveRequests = <<>>
  /\ driveFiles = <<>>
  /\ returned = 0
  /\ trace = <<"fetch">>
  /\ written = NoFile

NextCsv == \E canOpen \in BOOLEAN : save_to_csv(canOpen)

SpecCsv == InitCsv /\ [][NextCsv]_vars

(***************************************************************************)
(* Reading the file back, for the properties below.                        *)
(***************************************************************************)
RECURSIVE SplitLines(_, _, _)
\* The lines of a text as a line-oriented reader sees them: a line ends at
\* CR LF, at LF or at CR; characters after the last line break form a line.
SplitLines(t, cur, acc) ==
  IF t = <<>> THEN (IF cur = <<>> THEN acc ELSE Append(acc, cur))
  ELSE IF Head(t) = CR /\ Len(t) > 1 /\ t[2] = LF
       THEN SplitLines(Tail(Tail(t)), <<>>, Append(acc, cur))
  ELSE IF Head(t) \in {CR, LF}
       THEN SplitLines(Tail(t), <<>>, Append(acc, cur))
  ELSE SplitLines(Tail(t), Append(cur, Head(t)), acc)

Lines(t) == SplitLines(t, <<>>, <<>>)

RECURSIVE Reader(_, _, _, _, _)
\* csv.reader with the default dialect, as a character automaton.  st is
\* the parser state, field the characters of the field being read, rec the
\* fields of the record being read, recs the records read so far.
Reader(t, st, field, rec, recs) ==
  IF t = <<>> THEN
    (IF st = "start_record" THEN recs ELSE Append(recs, Append(rec, field)))
  ELSE
    LET c == Head(t)
        rest == Tail(t)
        afterBreak == IF c = CR /\ rest # <<>> /\ Head(rest) = LF
                      THEN Tail(rest) ELSE rest
    IN  CASE st = "in_quoted" ->
               IF c = DQUOTE
               THEN Reader(rest, "quote_in_quoted", field, rec, recs)
               ELSE Reader(rest, "in_quoted", Append(field, c), rec, recs)
          [] c \in {CR, LF} ->
               IF st = "start_record"
               THEN Reader(afterBreak, "start_record", <<>>, <<>>,
                           Append(recs, <<>>))
               ELSE Reader(afterBreak, "start_record", <<>>, <<>>,
                           Append(recs, Append(rec, field)))
          [] c = COMMA ->
               Reader(rest, "start_field", <<>>, Append(rec, field), recs)
          [] c = DQUOTE /\ st \in {"start_record", "start_field"} ->
               Reader(rest, "in_quoted", field, rec, recs)
          [] c = DQUOTE /\ st = "quote_in_quoted" ->
               Reader(rest, "in_quoted", Append(field, c), rec, recs)
          [] OTHER ->
               Reader(rest, "in_field", Append(field, c), rec, recs)

\* list(csv.reader(file)): the records of a text, each a sequence of fields.
ReadCsv(t) == Reader(t, "start_record", <<>>, <<>>, <<>>)

\* dimension keys and metric keys of a row, as sets and in order.
DimKeys(row) == Keys(row.dimensionValues)

MetKeys(row) == Keys(row.metricValues)

ToSet(q) == {q[i] : i \in 1..Len(q)}

\* Every row has the first row's dimension key set and metric key set.
UniformKeySets(rep) ==
  \A i \in 1..Len(rep) :
    /\ ToSet(DimKeys(rep[i])) = ToSet(DimKeys(rep[1]))
    /\ ToSet(MetKeys(rep[i])) = ToSet(MetKeys(rep[1]))

\* Every row has the first row's keys in the first row's order.
UniformKeyOrder(rep) ==
  \A i \in 1..Len(rep) :
    /\ DimKeys(rep[i]) = DimKeys(rep[1])
    /\ MetKeys(rep[i]) = MetKeys(rep[1])

\* A cell holds a line break.
CellBreaks(cell) == \E k \in 1..Len(Str(cell)) : Str(cell)[k] \in {CR, LF}

\* Some key or value written for the report holds a line break.
HasLineBreak(rep) ==
  \/ \E j \in 1..Len(HeaderCells(rep)) : CellBreaks(HeaderCells(rep)[j])
  \/ \E i \in 1..Len(rep) : \E j \in 1..Len(RowCells(rep[i])) :
       CellBreaks(RowCells(rep[i])[j])

\* The state right after save_to_csv wrote a non-empty report.
JustSaved == pc = "saved" /\ report # <<>>

(***************************************************************************)
(* Properties.                                                             *)
(***************************************************************************)
Last(q) == q[Len(q)]

\* The number of columns of one line of the file.
Columns(line) == IF ReadCsv(line) = <<>> THEN 0 ELSE Len(ReadCsv(line)[1])

\* C1: for an empty report save_to_csv returns without raising and performs
\* no write: the file at csv_output_path is as it was before the call,
\* absent or holding earlier content, whether or not the path could be opened.
C1_EmptyReportNoWrite ==
  [][(pc = "fetched" /\ report = <<>>) => (pc' = "saved" /\ fs' = fs)]_vars

\* save_to_csv returned for an empty report and the file still holds what an
\* earlier run wrote.
C1_Witness ==
  /\ pc = "saved"
  /\ report = <<>>
  /\ trace = <<"fetch", "export">>
  /\ fs.exists
  /\ fs # OldFile

\* C2 as stated: for a non-empty report with uniform key sets the file has
\* exactly 1 + row-count lines and every line has the header line's column
\* count.
C2_LineCount ==
  (JustSaved /\ UniformKeySets(report)) =>
    LET lines == Lines(fs.content)
    IN  /\ Len(lines) = 1 + Len(report)
        /\ \A i \in 1..Len(lines) : Columns(lines[i]) = Columns(lines[1])

\* C2 amended: for a non-empty report with uniform key sets the file has
\* exactly 1 + row-count CSV records (the header, then one per row), every
\* record has the header's field count, and the records are the lines of
\* the file when no key or value holds a line break.
C2_RecordCount ==
  (JustSaved /\ UniformKeySets(report)) =>
    LET recs == ReadCsv(fs.content)
        lines == Lines(fs.content)
    IN  /\ Len(recs) = 1 + Len(report)
        /\ \A i \in 1..Len(recs) : Len(recs[i]) = Len(recs[1])
        /\ ~HasLineBreak(report) =>
             /\ Len(lines) = 1 + Len(report)
             /\ \A i \in 1..Len(lines) : Columns(lines[i]) = Len(recs[1])

\* A two-row report with uniform keys was written, one of whose values holds
\* a comma and another a line break.
C2_Witness ==
  /\ JustSaved
  /\ report = <<RowQuoting, RowLineBreak>>
  /\ Len(ReadCsv(fs.content)) = 3
  /\ Len(Lines(fs.content)) = 4

\* The value row i holds under a key, for the columns of the dimensions
\* (isDim) or of the metrics.
ValueUnder(row, key, isDim) ==
  LET d == IF isDim THEN row.dimensionValues ELSE row.metricValues
      e == CHOOSE x \in ToSet(d) : x.k = key
  IN  e.v[1].v

Zip(keys, fields) ==
  [j \in 1..(IF Len(keys) < Len(fields) THEN Len(keys) ELSE Len(fields)) |->
     [k |-> keys[j], v |-> fields[j]]]

\* The (key, value) pairs of a row: its dimension entries, then its metric
\* entries, each with the value its wrapper holds; f is applied to the value.
Flattened(row, f(_)) ==
  LET d == row.dimensionValues \o row.metricValues
  IN  [j \in 1..Len(d) |-> [k |-> <<d[j].k>>, v |-> f(d[j].v[1].v)]]

Same(v) == v

\* A field read from the file is a str.
AsStr(t) == S(t)

\* C4 as stated: for a non-empty report with uniform key sets, zipping the
\* re-parsed header with each re-parsed data record reproduces the (key,
\* value) pairs of the row, values as they were in the report.
C4_RoundTrip ==
  (JustSaved /\ UniformKeySets(report)) =>
    LET recs == ReadCsv(fs.content)
    IN  /\ Len(recs) = 1 + Len(report)
        /\ \A i \in 1..Len(report) :
             LET z == Zip(recs[1], recs[i + 1])
             IN  [j \in 1..Len(z) |-> [k |-> z[j].k, v |-> AsStr(z[j].v)]]
                   = Flattened(report[i], Same)

\* C4 amended: for a non-empty report whose rows all have the first row's
\* keys in the first row's order, zipping the re-parsed header with each
\* re-parsed data record reproduces, row by row and in order, each key with
\* the text of its value: a str unchanged, a number as its decimal digits.
C4_RoundTripText ==
  (JustSaved /\ UniformKeyOrder(report)) =>
    LET recs == ReadCsv(fs.content)
    IN  /\ Len(recs) = 1 + Len(report)
        /\ \A i \in 1..Len(report) :
             Zip(recs[1], recs[i + 1]) = Flattened(report[i], Str)

\* A report was written whose values hold a comma, quotes, an empty string
\* and a line break, all of which survive the round trip.
C4_Witness ==
  /\ JustSaved
  /\ report = <<RowLineBreak, RowQuoting>>
  /\ ReadCsv(fs.content)[3][3] = <<DQUOTE, "Ad", DQUOTE, " B">>
  /\ ReadCsv(fs.content)[2][1] = <<"Fall", LF, "Promo">>

\* The step is a call of upload_csv_to_google_sheets.
UploadStep == trace' = Append(trace, "upload")

\* The step is a call of generate_campaign_report.
FetchStep == trace' = Append(trace, "fetch")

\* The step is a call of save_to_csv.
ExportStep == trace' = Append(trace, "export")

SpreadsheetMime == "application/vnd.google-apps.spreadsheet"

\* C5 as stated: each call of upload_csv_to_google_sheets issues exactly one
\* file-create request, with the spreadsheet MIME type as target format.
C5_OneCreatePerCall ==
  [][UploadStep =>
       /\ Len(driveRequests') = Len(driveRequests) + 1
       /\ Last(driveRequests').mimeType = SpreadsheetMime]_vars

\* C5 amended: each call issues at most one file-create request, none when
\* it fails before the request (no file at the path, or authentication
\* fails) and otherwise one with the spreadsheet MIME type and the file's
\* content; a call that returns has issued exactly one request, has created
\* exactly one new document, whose id no earlier document has, and returns
\* that id; no other step creates or removes a document or issues a request.
C5_OneCreatePerReturn ==
  [][/\ UploadStep =>
          /\ \/ driveRequests' = driveRequests
             \/ /\ Len(driveRequests') = Len(driveRequests) + 1
                /\ SubSeq(driveRequests', 1, Len(driveRequests)) = driveRequests
                /\ Last(driveRequests').mimeType = SpreadsheetMime
                /\ Last(driveRequests').media = fs.content
          /\ ~fs.exists => driveRequests' = driveRequests /\ pc' = "failed"
          /\ pc' = "done" =>
               /\ Len(driveRequests') = Len(driveRequests) + 1
               /\ Len(driveFiles') = Len(driveFiles) + 1
               /\ SubSeq(driveFiles', 1, Len(driveFiles)) = driveFiles
               /\ Last(driveFiles').mimeType = SpreadsheetMime
               /\ Last(driveFiles').content = fs.content
               /\ \A i \in 1..Len(driveFiles) :
                    driveFiles[i].id # Last(driveFiles').id
               /\ returned' = Last(driveFiles').id
          /\ pc' # "done" => driveFiles' = driveFiles
     /\ ~UploadStep => driveFiles' = driveFiles /\ driveRequests' = driveRequests
    ]_vars

\* Two calls returned, uploading the same file content, and two documents
\* with different ids exist.
C5_Witness ==
  /\ pc = "done"
  /\ Len(driveFiles) = 2
  /\ Len(driveRequests) = 2
  /\ driveFiles[1].content = driveFiles[2].content
  /\ driveFiles[1].id # driveFiles[2].id
  /\ returned = driveFiles[2].id

\* C6: when the reporting API answers with zero rows, whether with an empty
\* 'rows' entry or with none, generate_campaign_report returns an empty
\* sequence and does not raise.
C6_ZeroRowsReturnsEmpty ==
  (trace = <<"fetch">> /\ response.kind = "ok" /\ RowsOf(response) = <<>>) =>
    (pc = "fetched" /\ report = <<>>)

\* C7: every call of generate_campaign_report issues exactly one generate
\* request, for accounts/<PUBLISHER_ID>, with the date range 2023-12-01 to
\* 2023-12-31, the dimensions CAMPAIGN_NAME, COUNTRY, AD_NAME and the metrics
\* IMPRESSIONS, INSTALLS, CLICKS, whatever the service answers and whatever
\* happened in earlier calls; no other step issues a generate request.
C7_FixedRequest ==
  [][/\ FetchStep =>
          /\ Len(adRequests') = Len(adRequests) + 1
          /\ SubSeq(adRequests', 1, Len(adRequests)) = adRequests
          /\ Last(adRequests') =
               [parent |-> <<"accounts/", "pub-XXXXXXXXXXXXXXXX">>,
                body |->
                  [report_spec |->
                    [date_range |->
                       [start_date |-> [year |-> 2023, month |-> 12, day |-> 1],
                        end_date |-> [year |-> 2023, month |-> 12, day |-> 31]],
                     dimensions |-> <<"CAMPAIGN_NAME", "COUNTRY", "AD_NAME">>,
                     metrics |-> <<"IMPRESSIONS", "INSTALLS", "CLICKS">>]]]
     /\ ~FetchStep => adRequests' = adRequests
    ]_vars

\* The second call got two rows after the first call got none; both calls
\* sent the same request.
C7_Witness ==
  /\ pc = "fetched"
  /\ run = 2
  /\ Len(report) = 2
  /\ Len(adRequests) = 2
  /\ adRequests[1] = adRequests[2]
  /\ Len(driveFiles) = 0

\* q is an initial part of r.
IsPrefix(q, r) == Len(q) <= Len(r) /\ SubSeq(r, 1, Len(q)) = q

\* A step of a run that has ended can only start another run, which touches
\* neither the file nor either service.
OnlyANewRun ==
  /\ run' = run + 1
  /\ trace' = <<>>
  /\ fs' = fs
  /\ adRequests' = adRequests
  /\ driveRequests' = driveRequests
  /\ driveFiles' = driveFiles

\* C8: a run executes fetch, then export, then upload, in that order and each
\* at most once; export runs only after fetch returned and upload only after
\* export returned.  A fetch whose remote call fails ends the run with no
\* file write and no upload request; an upload whose create request fails
\* ends the run; once a run has ended no step of it executes and no request
\* is sent again.
C8_StrictSequence ==
  [][/\ IsPrefix(trace', <<"fetch", "export", "upload">>)
     /\ FetchStep => pc = "authenticated"
     /\ ExportStep => pc = "fetched" /\ response.kind = "ok"
     /\ UploadStep => pc = "saved"
     /\ (FetchStep /\ response'.kind = "error") =>
          /\ pc' = "failed"
          /\ fs' = fs
          /\ written' = NoFile
          /\ driveRequests' = driveRequests
          /\ driveFiles' = driveFiles
     /\ (UploadStep /\ driveRequests' # driveRequests /\ driveFiles' = driveFiles) =>
          pc' = "failed"
     /\ pc \in {"failed", "done"} => OnlyANewRun
    ]_vars

\* The second run's fetch failed after a first run that wrote and uploaded a
\* file: the run ended after the fetch alone, writing nothing.
C8_Witness ==
  /\ pc = "failed"
  /\ run = 2
  /\ response.kind = "error"
  /\ trace = <<"fetch">>
  /\ written = NoFile
  /\ fs.exists
  /\ Len(driveFiles) = 1
  /\ Len(driveRequests) = 1

\* C9: when the fetched report is empty the export step returns having
\* written nothing, and the step that follows it is the upload of the
\* default path: main does not end the run early, and a create request the
\* upload sends carries whatever the path holds.
C9_EmptyReportStillUploads ==
  [][/\ (ExportStep /\ report = <<>>) =>
          (pc' = "saved" /\ fs' = fs /\ written' = NoFile)
     /\ (report = <<>> /\ trace = <<"fetch", "export">>) =>
          /\ UploadStep
          /\ pc' \in {"done", "failed"}
          /\ driveRequests' # driveRequests =>
               Last(driveRequests').media = fs.content
          /\ ~fs.exists => pc' = "failed"
    ]_vars

\* A run fetched an empty report, wrote nothing, and its upload was attempted
\* on a path that holds no file.
C9_Witness ==
  /\ pc = "failed"
  /\ response = WithRows(<<>>)
  /\ report = <<>>
  /\ trace = <<"fetch", "export", "upload">>
  /\ written = NoFile
  /\ ~fs.exists

\* C10: the content a run uploads is the content that run's export step
\* wrote.
C10_UploadsOwnExport ==
  pc = "done" =>
    /\ written.exists
    /\ Last(driveFiles).content = written.content

============================================================================
